---- MODULE Spec2Model ----
(***************************************************************************)
(* Model of app/app.py (Hay Day XP Optimizer): the helpers norm and        *)
(* finals_in_unlocked, and optimize_plan_notebook followed section by      *)
(* section (unlock filter, closure check, MILP construction, solve,        *)
(* extraction, category filter and sort).                                  *)
(*                                                                         *)
(* Strings are sequences of one-character strings, so that norm is a real  *)
(* conversion.  Quantities produced by the solver are fixed-point numbers  *)
(* in units of 1/Den: an integer variable takes multiples of Den, a        *)
(* continuous one any multiple of 1/Den.  Every quantity-derived output    *)
(* (qty, xp_total, time_min_total, XP_total, total_time_used_min) is in    *)
(* the same unit.                                                          *)
(***************************************************************************)
EXTENDS Integers, Sequences, FiniteSets, TLC

VARIABLES
    df,                 \* the loaded catalogue: a sequence of rows (DataFrame)
    player_level,       \* argument player_level
    T_hours,            \* argument T_hours
    integer_solution,   \* argument integer_solution
    pc,                 \* position inside optimize_plan_notebook
    items_set,          \* set(avail["name_norm"])
    maps,               \* the pre-calculated maps of lines 146-159
    finals,             \* closure-checked finals (normalized ids)
    ingredient_items,   \* unlocked items used as an ingredient
    branch,             \* alternative taken at line 193 for each k visited
    model,              \* the LpProblem: objective and constraints
    status,             \* pl.LpStatus[model.status], "unset" before the solve
    values,             \* x[i].value() where it is not None
    read,               \* variables whose value() has been read
    rows,               \* the unfiltered rows list
    result,             \* the returned dict, NoResult before the return
    exception           \* exception that escaped the run, "none" otherwise

vars == << df, player_level, T_hours, integer_solution, pc, items_set, maps, finals,
           ingredient_items, branch, model, status, values, read, rows, result,
           exception >>

\* ---------------------------------------------------------------------
\* Bounds of the model
\* ---------------------------------------------------------------------
Den == 2
RawMax == 6
RayMax == 1
RecursionLimit == 6
MaxQty == 6

\* ---------------------------------------------------------------------
\* Program constants
\* ---------------------------------------------------------------------
MACHINE_CAP_MIN == 1440
INITIAL_STOCK == 30
MIN_PER_HOUR == 60

NoResult == [status |-> "none"]
NoItem == << >>

\* ---------------------------------------------------------------------
\* norm (lines 90-95)
\* ---------------------------------------------------------------------
lower(c) ==
    CASE c = "W" -> "w" [] c = "B" -> "b" [] c = "C" -> "c" [] c = "S" -> "s"
      [] c = "H" -> "h" [] c = "R" -> "r" [] c = "K" -> "k" [] c = "U" -> "u"
      [] OTHER -> c

\* s.replace(" "," ").replace(en dash,"-").replace(em dash,"-")
replace_chars(s) ==
    [j \in 1..Len(s) |->
        CASE s[j] = "nbsp" -> " "
          [] s[j] = "endash" -> "-"
          [] s[j] = "emdash" -> "-"
          [] OTHER -> s[j]]

IsSpace(c) == c \in {" ", "tab"}

\* re.sub(r"\s+", " ", s)
RECURSIVE collapse_ws(_)
collapse_ws(s) ==
    IF s = << >> THEN << >>
    ELSE IF IsSpace(Head(s))
         THEN IF Len(s) > 1 /\ IsSpace(s[2])
              THEN collapse_ws(Tail(s))
              ELSE << " " >> \o collapse_ws(Tail(s))
         ELSE << Head(s) >> \o collapse_ws(Tail(s))

\* str.strip()
RECURSIVE lstrip(_)
lstrip(s) == IF s # << >> /\ IsSpace(Head(s)) THEN lstrip(Tail(s)) ELSE s

RECURSIVE rstrip(_)
rstrip(s) ==
    IF s # << >> /\ IsSpace(s[Len(s)]) THEN rstrip(SubSeq(s, 1, Len(s) - 1)) ELSE s

norm(s) ==
    LET t == rstrip(lstrip(collapse_ws(replace_chars(s))))
    IN  [j \in 1..Len(t) |-> lower(t[j])]

\* ---------------------------------------------------------------------
\* The catalogue (goods.csv as returned by load_final_data): the ids are
\* the name_norm column, the display names the Name column.
\* ---------------------------------------------------------------------
wh == << "w", "h" >>
br == << "b", " ", "r" >>
ck == << "c", "k" >>
su == << "s", "-", "u" >>

WheatName == << "W", "h" >>
BreadName == << "B", "nbsp", "tab", "R" >>
CakeName  == << " ", "C", "k" >>
SugarName == << "S", "endash", "u" >>

Need(k, q) == [ing |-> k, q |-> q]

\* Each family varies the columns its comment names and fixes the others.
Row(name, id, lvl, x, t, b, ty, s, n) ==
    [Name |-> name, name_norm |-> id, Level_num |-> lvl, XP |-> x,
     time_min |-> t, Yield_qty |-> 1, Building |-> b,
     Production_Type |-> ty, Source |-> s, needs_norm |-> n]

Wheat(x, t, s, n) == Row(WheatName, wh, 1, x, t, "Field", "Crop", s, n)
Bread(l, t, s, n) == Row(BreadName, br, l, 5, t, "Bakery", "Machine/Processed", s, n)
Cake(t, b, n) == Row(CakeName, ck, 1, 8, t, b, "Machine/Processed", "Bakery", n)
SugarRow == Row(SugarName, su, 3, 2, 20, "Sugar Mill", "Machine/Processed",
                "Sugar Mill", << >>)

\* raw goods: XP, time, source; and a stocked raw good that requires itself
WheatRows ==
    { Wheat(x, t, s, << >>) : x \in {0, 1}, t \in {0, 10}, s \in {"Field", "Coop"} }
      \cup { Wheat(0, 10, "Field", << Need(wh, 1) >>) }

\* machine goods made of the raw good: unlock level, time, amount consumed
BreadRows ==
    { Bread(l, t, "Bakery", << Need(wh, q) >>) : l \in {1, 2}, t \in {10, 500}, q \in {2, 6} }

\* an intermediate with or without a starting buffer, one link of a cycle,
\* or a good made of a locked or unknown one
MidBreadRows ==
    { Bread(1, t, s, n) : t \in {10, 500}, s \in {"Bakery", "Berry Bush"},
                          n \in { << Need(wh, 2) >>, << Need(ck, 1) >>,
                                  << Need(su, 1) >> } }

\* goods whose recipe needs an intermediate, a locked or unknown good, itself
CakeRows ==
    { Cake(t, b, n) : t \in {20, 500}, b \in {"Bakery", "Cake Oven"},
                      n \in { << Need(br, 1) >>, << Need(su, 1) >>,
                              << Need(br, 1), Need(su, 1) >>,
                              << Need(ck, 1), Need(su, 1) >> } }

Catalogues ==
    { << w, b >> : w \in WheatRows, b \in BreadRows }
      \cup { cat \in { << Wheat(1, t, "Field", << >>), b, c >> :
                         t \in {10, 500}, b \in MidBreadRows, c \in CakeRows } :
               /\ (cat[1].time_min = 500) = (cat[2].time_min = 500)
               /\ (cat[2].time_min = 500) = (cat[3].time_min = 500) }
      \cup { cat \in { << Wheat(1, 10, "Field", << >>), b, c, SugarRow >> :
                         b \in MidBreadRows, c \in CakeRows } :
               /\ cat[2].time_min = 10
               /\ cat[3].time_min = 20
               /\ cat[3].Building = "Bakery" }

Levels == {1, 2}
Hours == {0, 1, 25}

\* ---------------------------------------------------------------------
\* DataFrame helpers
\* ---------------------------------------------------------------------
Range(s) == { s[j] : j \in 1..Len(s) }

\* df[df["Level_num"] <= player_level] (line 141)
avail == SelectSeq(df, LAMBDA r : r.Level_num <= player_level)

\* {r["name_norm"]: ... for _, r in avail.iterrows()}: the last row wins
RowOf(i) ==
    LET js == { j \in 1..Len(avail) : avail[j].name_norm = i }
    IN  avail[CHOOSE j \in js : \A j2 \in js : j2 <= j]

\* frame[frame["name_norm"] == i][...].iloc[0]: the first row wins
FirstRow(frame, i) ==
    LET js == { j \in 1..Len(frame) : frame[j].name_norm = i }
    IN  frame[CHOOSE j \in js : \A j2 \in js : j <= j2]

\* re.search(r'Field|Tree|Bush', source, re.I) (lines 156-158)
HasCropSource(s) == s \in {"Field", "Apple Tree", "Berry Bush"}

\* lines 145-159: items_set and the dictionaries keyed by name_norm
unlocked_ids == { avail[j].name_norm : j \in 1..Len(avail) }

precalculated_maps ==
    [xp |-> [i \in unlocked_ids |-> RowOf(i).XP],
     tmin |-> [i \in unlocked_ids |-> RowOf(i).time_min],
     needs_map |-> [i \in unlocked_ids |-> RowOf(i).needs_norm],
     yield_map |-> [i \in unlocked_ids |-> RowOf(i).Yield_qty],
     type_map |-> [i \in unlocked_ids |-> RowOf(i).Production_Type],
     building |-> [i \in unlocked_ids |-> FirstRow(avail, i).Building],
     initial_stock_map |->
         [i \in { i \in unlocked_ids : HasCropSource(RowOf(i).Source) } |->
             INITIAL_STOCK]]

Keys(nd) == { nd[j].ing : j \in 1..Len(nd) }

\* needs_map[i].get(k, 0.0) (line 190)
needs_get(i, k) ==
    IF k \in Keys(maps.needs_map[i])
    THEN (CHOOSE e \in Range(maps.needs_map[i]) : e.ing = k).q
    ELSE 0

\* initial_stock_map.get(k, 0.0) (line 191)
initial_stock(k) ==
    IF k \in DOMAIN maps.initial_stock_map THEN maps.initial_stock_map[k] ELSE 0

\* total_cap_min (line 142)
total_cap_min == IF T_hours * MIN_PER_HOUR > 0 THEN T_hours * MIN_PER_HOUR ELSE 0

\* ---------------------------------------------------------------------
\* finals_in_unlocked (lines 97-108); df is the module-level catalogue
\* ---------------------------------------------------------------------
finals_in_unlocked_nosub(av) == { av[j].Name : j \in 1..Len(av) }

finals_in_unlocked(av) ==
    LET items == { av[j].Name : j \in 1..Len(av) }
        original(ing_norm) ==
            IF \E j \in 1..Len(df) : df[j].name_norm = ing_norm
            THEN FirstRow(df, ing_norm).Name
            ELSE NoItem
        used == { original(e.ing) :
                    e \in UNION { Range(av[j].needs_norm) : j \in 1..Len(av) } }
                  \cap items
    IN  items \ used

\* ---------------------------------------------------------------------
\* closure_ok (lines 162-167).  The lru_cache stores only completed calls,
\* so a call that re-enters itself recurses until the interpreter's
\* recursion limit and raises RecursionError.
\* ---------------------------------------------------------------------
RECURSIVE closure_loop(_, _, _)
closure_ok_shallow(u, depth) ==
    IF u \in items_set /\ \E e \in Range(maps.needs_map[u]) : e.ing \notin items_set
    THEN "False" ELSE "True"

closure_ok(u, depth) ==
    IF depth > RecursionLimit THEN "RecursionError"
    ELSE closure_loop(IF u \in items_set THEN maps.needs_map[u] ELSE << >>, 1, depth)

closure_loop(nd, j, depth) ==
    IF j > Len(nd) THEN "True"
    ELSE IF nd[j].ing \notin items_set THEN "False"
    ELSE LET r == closure_ok(nd[j].ing, depth + 1)
         IN  IF r = "True" THEN closure_loop(nd, j + 1, depth) ELSE r

\* lines 169-170
finals_raw == { norm(i) : i \in finals_in_unlocked(avail) }

\* lines 173-176
ingredients_of_unlocked ==
    UNION { Keys(maps.needs_map[i]) : i \in items_set } \cap items_set

\* ---------------------------------------------------------------------
\* The MILP (lines 179-213).  A constraint is coef . x  sense  rhs, with
\* rhs in whole units; the solver works in units of 1/Den.
\* ---------------------------------------------------------------------
\* lpSum / sum of f[e] over the elements e of S
RECURSIVE Sum(_, _)
Sum(S, f) ==
    IF S = {} THEN 0
    ELSE LET e == CHOOSE e \in S : TRUE IN f[e] + Sum(S \ {e}, f)

\* the objective (line 186)
objective_of == [i \in items_set |-> maps.xp[i]]

\* balance_ge (lines 190-195): yield[k]*x[k] - consume >= -initial_stock
balance_ge(k) ==
    [name |-> "balance_ge", of |-> k,
     coef |-> [i \in items_set |->
                 (IF i = k THEN maps.yield_map[k] ELSE 0) - needs_get(i, k)],
     sense |-> ">=", rhs |-> 0 - initial_stock(k)]

\* active_buildings (line 201)
active_buildings == { avail[j].Building : j \in 1..Len(avail) }

machine_cap_window(machine) ==
    [name |-> "machine_cap", of |-> machine,
     coef |-> [i \in items_set |->
                 IF maps.building[i] = machine THEN maps.tmin[i] ELSE 0],
     sense |-> "<=", rhs |-> total_cap_min]

\* machine_cap_<machine> (lines 204-210)
machine_cap(machine) ==
    [name |-> "machine_cap", of |-> machine,
     coef |-> [i \in items_set |->
                 IF maps.building[i] = machine THEN maps.tmin[i] ELSE 0],
     sense |-> "<=", rhs |-> MACHINE_CAP_MIN]

\* global_time_cap (line 213)
global_time_cap ==
    [name |-> "global_time_cap", of |-> "all",
     coef |-> [i \in items_set |-> maps.tmin[i]],
     sense |-> "<=", rhs |-> total_cap_min]

\* pulp drops a term whose coefficient is 0, and a variable that appears in
\* no term is not part of the problem: its value() stays None (line 237)
in_model(i, ge) ==
    \/ maps.xp[i] # 0
    \/ maps.tmin[i] # 0
    \/ \E k \in ge : (i = k /\ maps.yield_map[k] # 0) \/ needs_get(i, k) # 0

\* the LpProblem once every constraint is added; ge: the items given a
\* balance_ge constraint
problem(ge) ==
    [vars |-> { i \in items_set : in_model(i, ge) },
     objective |-> objective_of,
     constraints |-> { balance_ge(k) : k \in ge }
                       \cup { machine_cap(machine) : machine \in active_buildings }
                       \cup { global_time_cap }]

NoModel == [vars |-> {}, objective |-> << >>, constraints |-> {}]

\* ---------------------------------------------------------------------
\* The solver (lines 216-217): CBC on the LpProblem
\* ---------------------------------------------------------------------
dot(coef, x) == Sum(DOMAIN x, [i \in DOMAIN x |-> coef[i] * x[i]])

satisfies(c, x) ==
    IF c.sense = ">=" THEN dot(c.coef, x) >= c.rhs * Den
    ELSE dot(c.coef, x) <= c.rhs * Den

feasible(m, x) == \A c \in m.constraints : satisfies(c, x)

\* the largest value a variable can take under its "<=" constraints; a
\* variable none of them bounds is searched up to RawMax
upper(m, i) ==
    LET caps == { (c.rhs * Den) \div c.coef[i] :
                    c \in { c \in m.constraints : c.sense = "<=" /\ c.coef[i] > 0 } }
    IN  IF caps = {} THEN RawMax * Den
        ELSE CHOOSE u \in caps : \A u2 \in caps : u <= u2

\* cat = "Integer" | "Continuous", lowBound = 0 (lines 182-183)
domain(m, i) ==
    IF integer_solution
    THEN { Den * n : n \in 0..(upper(m, i) \div Den) }
    ELSE 0..upper(m, i)

RECURSIVE assignments(_, _)
assignments(m, S) ==
    IF S = {} THEN { << >> }
    ELSE LET i == CHOOSE i \in S : TRUE
         IN  { (i :> v) @@ f : v \in domain(m, i), f \in assignments(m, S \ {i}) }

\* a direction along which the objective grows without leaving the
\* constraints: the problem is unbounded
unbounded(m) ==
    \E d \in [m.vars -> 0..RayMax] :
        /\ \A c \in m.constraints :
              IF c.sense = ">=" THEN dot(c.coef, d) >= 0 ELSE dot(c.coef, d) <= 0
        /\ dot(m.objective, d) > 0

\* the labels of pl.LpStatus other than Optimal; which of them CBC gives a
\* problem without a finite optimum is the solver's choice
NonOptimalStatus == {"Unbounded", "Infeasible", "Not Solved", "Undefined"}

\* the outcomes of model.solve: a status and the values of the variables
solutions(m) ==
    LET feas == { x \in assignments(m, m.vars) : feasible(m, x) }
        obj == [x \in feas |-> dot(m.objective, x)]
        objs == { obj[x] : x \in feas }
        best == CHOOSE b \in objs : \A b2 \in objs : b2 <= b
    IN  IF feas = {} THEN { [status |-> "Infeasible", x |-> << >>] }
        ELSE IF unbounded(m)
             THEN { [status |-> st, x |-> << >>] : st \in NonOptimalStatus }
        ELSE { [status |-> "Optimal", x |-> x] : x \in { x \in feas : obj[x] = best } }

\* ---------------------------------------------------------------------
\* Result extraction (lines 233-281)
\* ---------------------------------------------------------------------
\* int(round(val)) on a value in units of 1/Den (round half to even)
round(val) ==
    LET q == val \div Den
        r == val % Den
    IN  IF 2 * r < Den THEN q
        ELSE IF 2 * r > Den THEN q + 1
        ELSE IF q % 2 = 0 THEN q ELSE q + 1

\* qty (line 239), again in units of 1/Den
quantity(val) == IF integer_solution THEN round(val) * Den ELSE val

\* type_map.get(norm(x), 'Unknown') (line 261)
production_type(item) ==
    IF norm(item) \in DOMAIN maps.type_map THEN maps.type_map[norm(item)] ELSE "Unknown"

\* rows.append({...}) (lines 242-253)
row_of(i) ==
    LET qty == quantity(values[i])
    IN  [item |-> FirstRow(df, i).Name,
         is_final |-> i \in finals,
         qty |-> qty,
         xp_each |-> maps.xp[i],
         xp_total |-> maps.xp[i] * qty,
         time_min_each |-> maps.tmin[i],
         time_min_total |-> maps.tmin[i] * qty]

\* sort_values(["is_final","xp_each","time_min_each"], [False, False, True])
before(a, b) ==
    \/ a.is_final /\ ~b.is_final
    \/ a.is_final = b.is_final /\ a.xp_each > b.xp_each
    \/ a.is_final = b.is_final /\ a.xp_each = b.xp_each
         /\ a.time_min_each <= b.time_min_each

sorted_plans(R) ==
    { p \in [1..Cardinality(R) -> R] :
        /\ \A a, b \in DOMAIN p : a # b => p[a] # p[b]
        /\ \A a, b \in DOMAIN p : a < b => before(p[a], p[b]) }

\* the rows the category filter keeps (line 264)
kept(R) == { r \in R : production_type(r.item) = "Machine/Processed" }

total_xp_kept(R) == Sum(kept(R), [r \in kept(R) |-> r.xp_total])

\* total_xp, total_time_used (lines 254-255)
total_xp(R) == Sum(R, [r \in R |-> r.xp_total])

total_time_used(R) == Sum(R, [r \in R |-> r.time_min_total])

\* ---------------------------------------------------------------------
\* optimize_plan_notebook, section by section
\* ---------------------------------------------------------------------
Init ==
    /\ df \in Catalogues
    /\ player_level \in Levels
    /\ T_hours \in Hours
    /\ integer_solution \in BOOLEAN
    /\ \A j \in 1..Len(df) :
          df[j].time_min > 0 => (T_hours * MIN_PER_HOUR) \div df[j].time_min <= MaxQty
    /\ pc = "unlock"
    /\ items_set = {}
    /\ maps = << >>
    /\ finals = {}
    /\ ingredient_items = {}
    /\ branch = << >>
    /\ model = NoModel
    /\ status = "unset"
    /\ values = << >>
    /\ read = {}
    /\ rows = {}
    /\ result = NoResult
    /\ exception = "none"

\* lines 141-159: the unlocked rows and the per-item maps
Unlock ==
    /\ pc = "unlock"
    /\ items_set' = unlocked_ids
    /\ maps' = precalculated_maps
    /\ pc' = "closure"
    /\ UNCHANGED << df, player_level, T_hours, integer_solution, finals,
                    ingredient_items, branch, model, status, values, read,
                    rows, result, exception >>

\* lines 162-176: finals and ingredient_items
Closure ==
    /\ pc = "closure"
    /\ LET verdict == [i \in finals_raw |-> closure_ok(i, 1)]
       IN  IF \E i \in finals_raw : verdict[i] = "RecursionError"
           THEN /\ exception' = "RecursionError"
                /\ pc' = "done"
                /\ UNCHANGED << finals, ingredient_items >>
           ELSE /\ finals' = { i \in finals_raw : verdict[i] = "True" }
                /\ ingredient_items' = ingredients_of_unlocked
                /\ pc' = "build"
                /\ UNCHANGED exception
    /\ UNCHANGED << df, player_level, T_hours, integer_solution, items_set, maps,
                    branch, model, status, values, read, rows, result >>

\* line 193: the alternative of the balance rule taken for k
balance_case(k) == IF k \in finals \/ initial_stock(k) > 0 THEN "ge" ELSE "eq"

\* lines 179-213: variables, objective and constraints.  The "eq"
\* alternative (line 198) reads the undefined name ield_map and raises
\* NameError; the set is visited in any order, so any of the "ge"
\* constraints may have been added before.
BuildModel ==
    /\ pc = "build"
    /\ LET ge == { k \in ingredient_items : balance_case(k) = "ge" }
           eq == ingredient_items \ ge
       IN  IF eq = {}
           THEN /\ branch' = [k \in ingredient_items |-> "ge"]
                /\ model' = problem(ge)
                /\ pc' = "solve"
                /\ UNCHANGED exception
           ELSE \E k0 \in eq, done \in SUBSET ge :
                /\ branch' = [k \in done \cup {k0} |-> IF k = k0 THEN "eq" ELSE "ge"]
                /\ model' = [vars |-> {}, objective |-> objective_of,
                             constraints |-> { balance_ge(k) : k \in done }]
                /\ exception' = "NameError"
                /\ pc' = "done"
    /\ UNCHANGED << df, player_level, T_hours, integer_solution, items_set, maps,
                    finals, ingredient_items, status, values, read, rows, result >>

\* lines 216-217: CBC returns a status and, when Optimal, one of the optimal
\* assignments
Solve ==
    /\ pc = "solve"
    /\ \E s \in solutions(model) :
         /\ status' = s.status
         /\ values' = s.x
    /\ pc' = "status"
    /\ UNCHANGED << df, player_level, T_hours, integer_solution, items_set, maps,
                    finals, ingredient_items, branch, model, read, rows,
                    result, exception >>

failure_result_with_totals ==
    [status |-> status,
     XP_total |-> dot(model.objective, [i \in model.vars |-> Den]),
     XP_per_hour |-> "0",
     total_time_used_min |-> 0,
     time_capacity_min |-> T_hours * MIN_PER_HOUR,
     plan |-> << >>]

\* the default failure return (lines 221-230)
failure_result ==
    [status |-> status,
     XP_total |-> 0,
     XP_per_hour |-> "0",
     total_time_used_min |-> 0,
     time_capacity_min |-> T_hours * MIN_PER_HOUR,
     plan |-> << >>]

\* lines 220-230
ReturnFailure ==
    /\ pc = "status"
    /\ status # "Optimal"
    /\ result' = failure_result
    /\ pc' = "done"
    /\ UNCHANGED << df, player_level, T_hours, integer_solution, items_set, maps,
                    finals, ingredient_items, branch, model, status, values,
                    read, rows, exception >>

\* lines 233-257: the rows of every item whose quantity exceeds 1e-6
Extract ==
    /\ pc = "status"
    /\ status = "Optimal"
    /\ read' = items_set
    /\ rows' = { row_of(i) : i \in { i \in items_set :
                                       /\ i \in DOMAIN values
                                       /\ quantity(values[i]) > 0 } }
    /\ pc' = "filter"
    /\ UNCHANGED << df, player_level, T_hours, integer_solution, items_set, maps,
                    finals, ingredient_items, branch, model, status, values,
                    result, exception >>

\* lines 257-281: plan_df['item'] on the column-less frame built from an
\* empty rows list raises KeyError; otherwise filter, sort and return
FilterSort ==
    /\ pc = "filter"
    /\ IF rows = {}
       THEN /\ exception' = "KeyError"
            /\ UNCHANGED result
       ELSE /\ \E plan \in sorted_plans(kept(rows)) :
                 result' = [status |-> status,
                            XP_total |-> total_xp(rows),
                            XP_per_hour |-> IF T_hours > 0
                                            THEN << total_xp(rows), T_hours >>
                                            ELSE "nan",
                            total_time_used_min |-> total_time_used(rows),
                            time_capacity_min |-> total_cap_min,
                            plan |-> plan]
            /\ UNCHANGED exception
    /\ pc' = "done"
    /\ UNCHANGED << df, player_level, T_hours, integer_solution, items_set, maps,
                    finals, ingredient_items, branch, model, status, values,
                    read, rows >>

Next ==
    \/ Unlock
    \/ Closure
    \/ BuildModel
    \/ Solve
    \/ ReturnFailure
    \/ Extract
    \/ FilterSort

Spec == Init /\ [][Next]_vars

\* ---------------------------------------------------------------------
\* Vocabulary of the properties, read off the catalogue itself
\* ---------------------------------------------------------------------
UnlockedRows == { df[j] : j \in { j \in 1..Len(df) : df[j].Level_num <= player_level } }

Unlocked == { r.name_norm : r \in UnlockedRows }

RowById(i) == CHOOSE r \in UnlockedRows : r.name_norm = i

Requires(i) == { e.ing : e \in Range(RowById(i).needs_norm) }

Required(i, k) ==
    IF k \in Requires(i)
    THEN (CHOOSE e \in Range(RowById(i).needs_norm) : e.ing = k).q
    ELSE 0

\* every ingredient reached from the set S through unlocked recipes
RECURSIVE ReachFrom(_)
ReachFrom(S) ==
    LET more == S \cup UNION { Requires(i) : i \in S \cap Unlocked }
    IN  IF more = S THEN S ELSE ReachFrom(more)

Reach(i) == ReachFrom(Requires(i))

CyclicUnlocked == \E i \in Unlocked : i \in Reach(i)

Consumed(k) == \E i \in Unlocked : k \in Requires(i)

Stock(k) == IF HasCropSource(RowById(k).Source) THEN INITIAL_STOCK ELSE 0

Returned == pc = "done" /\ exception = "none"

ReturnedOptimal == Returned /\ result.status = "Optimal"

\* the quantity of item i in the solver's assignment, in units of 1/Den
Qty(i) == IF i \in DOMAIN values THEN values[i] ELSE 0

Produced == { i \in Unlocked : Qty(i) > 0 }

PlanItems == { result.plan[j].item : j \in 1..Len(result.plan) }

\* Scenario A: one raw item and one machine item made of 2 units of it
ScenarioA ==
    /\ Len(df) = 2
    /\ df[1].needs_norm = << >> /\ df[1].Level_num = 1 /\ df[1].time_min = 0
    /\ df[1].XP = 0
    /\ df[2].needs_norm = << Need(df[1].name_norm, 2) >> /\ df[2].Level_num = 1
    /\ df[2].XP = 5 /\ df[2].time_min = 10
    /\ df[2].Production_Type = "Machine/Processed"

\* ---------------------------------------------------------------------
\* Properties
\* ---------------------------------------------------------------------

\* C1: in every Optimal result an unlocked item whose recipe requires an
\* ingredient outside the unlocked set has quantity 0.
C1_LockedIngredientForcesZero ==
    ReturnedOptimal =>
        \A i \in Unlocked : (Requires(i) \ Unlocked # {}) => Qty(i) = 0

\* C2: whenever some unlocked ingredient has no initial stock and is not a
\* final, the run adds its exact-balance constraint and returns a result
\* whose assignment produces exactly what is consumed.
C2_ExactBalance ==
    pc = "done" =>
        \A k \in ingredient_items :
            (Stock(k) = 0 /\ k \notin finals) =>
                /\ Returned
                /\ \E c \in model.constraints : c.name = "balance_eq" /\ c.of = k
                /\ RowById(k).Yield_qty * Qty(k)
                     = Sum(Unlocked, [i \in Unlocked |-> Required(i, k) * Qty(i)])

\* C3: a run on an unlocked set whose ingredient graph has a cycle ends
\* with a cycle error raised by the closure check.
C3_CycleReported ==
    (pc = "done" /\ CyclicUnlocked) => exception = "CycleError"

\* C3, the silent case: a cyclic unlocked set for which the run returns an
\* Optimal result in which the item that requires itself is produced.
C3_CyclePlanned ==
    ReturnedOptimal /\ \E i \in Produced : i \in Reach(i)

\* C4: when the solver is Optimal and no item has a quantity above the
\* tolerance (the time window 0 of Scenario C among them), the run returns
\* normally with status Optimal, zero XP, zero time used and an empty plan.
C4_EmptyOptimalReturns ==
    (pc = "done" /\ status = "Optimal" /\ Produced = {}) =>
        /\ Returned
        /\ result.status = "Optimal"
        /\ result.XP_total = 0
        /\ result.total_time_used_min = 0
        /\ result.plan = << >>

\* C5: once the solver has ended with a status other than Optimal, the run
\* returns without raising a result tagged with that status, with zero
\* XP_total, XP_per_hour and total_time_used_min and an empty plan, and no
\* variable value has been read.
C5_FailureResult ==
    (pc = "done" /\ status \notin {"unset", "Optimal"}) =>
        /\ exception = "none"
        /\ result.status = status
        /\ result.XP_total = 0
        /\ result.XP_per_hour = "0"
        /\ result.total_time_used_min = 0
        /\ result.plan = << >>
        /\ read = {}

C5_Witness ==
    /\ pc = "done"
    /\ status = "Unbounded"
    /\ result.status = "Unbounded"
    /\ model.vars # {}

\* C6: Scenario A with player_level 1, T_hours 1 and integer mode returns
\* status Optimal, a plan whose only entry is the machine item with qty 6,
\* and XP_total 30.
C6_ScenarioA ==
    (pc = "done" /\ ScenarioA /\ player_level = 1 /\ T_hours = 1 /\ integer_solution) =>
        /\ ReturnedOptimal
        /\ Len(result.plan) = 1
        /\ result.plan[1].item = df[2].Name
        /\ result.plan[1].qty = 6 * Den
        /\ result.XP_total = 30 * Den

\* C7: in every Optimal result the total time used is at most
\* T_hours * 60, which is the reported capacity, and the time of the items
\* of each building is at most 1440, whatever T_hours is.
C7_TimeCaps ==
    ReturnedOptimal =>
        /\ result.time_capacity_min = T_hours * MIN_PER_HOUR
        /\ result.total_time_used_min <= result.time_capacity_min * Den
        /\ result.total_time_used_min
             = Sum(Unlocked, [i \in Unlocked |-> RowById(i).time_min * Qty(i)])
        /\ \A b \in { r.Building : r \in UnlockedRows } :
              LET at == { i \in Unlocked : RowById(i).Building = b }
              IN  Sum(at, [i \in at |-> RowById(i).time_min * Qty(i)])
                    <= MACHINE_CAP_MIN * Den

\* a window above 24 hours in which a building is used a full 1000 of its
\* 1440 minutes and a further batch would still fit the window
C7_Witness ==
    /\ ReturnedOptimal
    /\ T_hours > 24
    /\ \E i \in Produced :
          /\ RowById(i).time_min * Qty(i) + RowById(i).time_min * Den
               > MACHINE_CAP_MIN * Den
          /\ result.total_time_used_min + RowById(i).time_min * Den
               <= result.time_capacity_min * Den

\* C8: in every Optimal result XP_total and total_time_used_min are the
\* sums over all unlocked items with a quantity above tolerance, the plan
\* holds exactly those of them whose production type is Machine/Processed,
\* and so XP_total is at least the XP of the plan rows.
C8_UnfilteredTotals ==
    ReturnedOptimal =>
        /\ result.XP_total = Sum(Produced, [i \in Produced |-> RowById(i).XP * Qty(i)])
        /\ result.total_time_used_min
             = Sum(Produced, [i \in Produced |-> RowById(i).time_min * Qty(i)])
        /\ PlanItems = { RowById(i).Name :
                           i \in { i \in Produced :
                                     RowById(i).Production_Type = "Machine/Processed" } }
        /\ Len(result.plan) = Cardinality(PlanItems)
        /\ \A j \in 1..Len(result.plan) :
              \E i \in Produced :
                 /\ result.plan[j].item = RowById(i).Name
                 /\ result.plan[j].qty = Qty(i)
                 /\ result.plan[j].xp_total = RowById(i).XP * Qty(i)
        /\ result.XP_total
             >= Sum(DOMAIN result.plan, [j \in DOMAIN result.plan |-> result.plan[j].xp_total])

\* a raw good with XP is produced: XP_total exceeds the XP of the plan
C8_Witness ==
    /\ ReturnedOptimal
    /\ result.plan # << >>
    /\ result.XP_total
         > Sum(DOMAIN result.plan, [j \in DOMAIN result.plan |-> result.plan[j].xp_total])

\* C9: for an acyclic unlocked set the closure check ends without error
\* and finals is exactly the set of unlocked items that no unlocked item
\* consumes and whose ingredients, through any chain, are all unlocked.
C9_Finals ==
    (pc \notin {"unlock", "closure"} /\ ~CyclicUnlocked) =>
        /\ exception # "RecursionError"
        /\ finals = { i \in Unlocked : ~Consumed(i) /\ Reach(i) \subseteq Unlocked }

\* a final, and an unconsumed item kept out of finals by an ingredient that
\* is locked only further down its chain
C9_Witness ==
    /\ pc = "build"
    /\ ~CyclicUnlocked
    /\ finals # {}
    /\ \E i \in Unlocked \ finals :
          /\ ~Consumed(i)
          /\ Requires(i) \subseteq Unlocked
          /\ ~(Reach(i) \subseteq Unlocked)

====
